---- MODULE Spec2Model ----
(***************************************************************************)
(* A model of the Doctra parser API: the file-kind classifier, the text    *)
(* normalizer, the per-kind extraction strategies of extract_service.py    *)
(* and the /extract endpoint of app.py that calls them.                    *)
(*                                                                         *)
(* A text is a sequence of one-character strings.                          *)
(***************************************************************************)
EXTENDS Integers, Sequences, FiniteSets, TLC

(***************************************************************************)
(* Characters and character classes of Python's re module and str methods. *)
(***************************************************************************)
Whitespace == {" ", "\t", "\n", "\r", "\f"}

\* The grave accent (U+0060), which a TLA+ string cannot hold.
Backtick == "BACKTICK"

\* Python's None, as a value that is no text.
None == <<"None">>

\* x or "": None and the empty text give the empty text
OrEmpty(x) == IF x = None THEN <<>> ELSE x

Min(S) == CHOOSE x \in S : \A y \in S : x <= y

Max(S) == 0 - Min({0 - x : x \in S})

\* The least element of T, a set of positions in i..n, or n + 1 when T is
\* empty: n + 1 less the number of positions from that element on.
FirstIn(T, i, n) == n + 1 - Cardinality({j \in i..n : \E t \in T : t <= j})

\* The greatest element of T, a set of positions in i..n, or i - 1 when T is
\* empty.
LastIn(T, i, n) == i - 1 + Cardinality({j \in i..n : \E t \in T : j <= t})

\* str.find(c, i): the first index j >= i with text[j] = c, or 0 when there is none.
IndexFrom(text, i, c) ==
    LET j == FirstIn({k \in i..Len(text) : text[k] = c}, i, Len(text))
    IN  IF j > Len(text) THEN 0 ELSE j

\* The end (exclusive) of the greedy run of characters of class Cls that starts at i.
RunEnd(text, i, Cls) ==
    FirstIn({k \in i..Len(text) : text[k] \notin Cls}, i, Len(text))

\* '^' under re.MULTILINE: the start of the text or the position after a newline.
LineStart(text, i) == i = 1 \/ text[i - 1] = "\n"

\* '$' under re.MULTILINE: the end of the text or the position before a newline.
LineEnd(text, p) == p = Len(text) + 1 \/ text[p] = "\n"

At(text, i, c) == i >= 1 /\ i <= Len(text) /\ text[i] = c

InClass(text, i, Cls) == i >= 1 /\ i <= Len(text) /\ text[i] \in Cls

(***************************************************************************)
(* One matcher per rewrite of normalize_extracted_text.  Each gives the    *)
(* end (exclusive) of the match of its pattern that starts at i, or 0 when *)
(* the pattern does not match at i.  No pattern matches the empty string.  *)
(***************************************************************************)
\* "\r\n"
MatchCrLf(text, i) ==
    IF At(text, i, "\r") /\ At(text, i + 1, "\n") THEN i + 2 ELSE 0

\* !\[[^\]]*\]\(([^)]+)\)
MatchImage(text, i) ==
    IF At(text, i, "!") /\ At(text, i + 1, "[")
    THEN LET j == IndexFrom(text, i + 2, "]")
         IN  IF j # 0 /\ At(text, j + 1, "(")
             THEN LET k == IndexFrom(text, j + 2, ")")
                  IN  IF k > j + 2 THEN k + 1 ELSE 0
             ELSE 0
    ELSE 0

\* ^#{1,6}\s*
MatchHeading(text, i) ==
    IF LineStart(text, i) /\ At(text, i, "#")
    THEN LET r == RunEnd(text, i, {"#"})
             h == IF r < i + 6 THEN r ELSE i + 6
         IN  RunEnd(text, h, Whitespace)
    ELSE 0

\* ^\s*[-*+]\s+
MatchBullet(text, i) ==
    IF LineStart(text, i)
    THEN LET w == RunEnd(text, i, Whitespace)
         IN  IF InClass(text, w, {"-", "*", "+"}) /\ InClass(text, w + 1, Whitespace)
             THEN RunEnd(text, w + 1, Whitespace)
             ELSE 0
    ELSE 0

\* ^\s*>\s?
MatchQuote(text, i) ==
    IF LineStart(text, i)
    THEN LET w == RunEnd(text, i, Whitespace)
         IN  IF At(text, w, ">")
             THEN (IF InClass(text, w + 1, Whitespace) THEN w + 2 ELSE w + 1)
             ELSE 0
    ELSE 0

\* BACKTICK([^BACKTICK]+)BACKTICK
MatchCode(text, i) ==
    IF At(text, i, Backtick)
    THEN LET j == IndexFrom(text, i + 1, Backtick)
         IN  IF j > i + 1 THEN j + 1 ELSE 0
    ELSE 0

\* \*\*([^*]+)\*\*  and  __([^_]+)__ , c the emphasis character
MatchBold(text, i, c) ==
    IF At(text, i, c) /\ At(text, i + 1, c)
    THEN LET j == IndexFrom(text, i + 2, c)
         IN  IF j > i + 2 /\ At(text, j + 1, c) THEN j + 2 ELSE 0
    ELSE 0

\* \[([^\]]+)\]\([^)]+\)
MatchLink(text, i) ==
    IF At(text, i, "[")
    THEN LET j == IndexFrom(text, i + 1, "]")
         IN  IF j > i + 1 /\ At(text, j + 1, "(")
             THEN LET k == IndexFrom(text, j + 2, ")")
                  IN  IF k > j + 2 THEN k + 1 ELSE 0
             ELSE 0
    ELSE 0

\* ^\|?[-:\s|]+\|?$  : the longest run of separator characters from a line
\* start that stops at a line end ('|' is itself in the class).
MatchTableRule(text, i) ==
    IF LineStart(text, i)
    THEN LET r == RunEnd(text, i, Whitespace \cup {"-", ":", "|"})
             e == LastIn({p \in (i + 1)..r : LineEnd(text, p)}, i + 1, r)
         IN  IF e > i THEN e ELSE 0
    ELSE 0

\* "|"
MatchPipe(text, i) == IF At(text, i, "|") THEN i + 1 ELSE 0

\* \n{3,}
MatchBlankLines(text, i) ==
    IF At(text, i, "\n") /\ At(text, i + 1, "\n") /\ At(text, i + 2, "\n")
    THEN RunEnd(text, i, {"\n"})
    ELSE 0

\* [ \t]{2,}
MatchSpaces(text, i) ==
    IF InClass(text, i, {" ", "\t"}) /\ InClass(text, i + 1, {" ", "\t"})
    THEN RunEnd(text, i, {" ", "\t"})
    ELSE 0

MatchEnd(rule, text, i) ==
    CASE rule = "crlf"    -> MatchCrLf(text, i)
      [] rule = "image"   -> MatchImage(text, i)
      [] rule = "heading" -> MatchHeading(text, i)
      [] rule = "bullet"  -> MatchBullet(text, i)
      [] rule = "quote"   -> MatchQuote(text, i)
      [] rule = "code"    -> MatchCode(text, i)
      [] rule = "bold"    -> MatchBold(text, i, "*")
      [] rule = "bold_"   -> MatchBold(text, i, "_")
      [] rule = "link"    -> MatchLink(text, i)
      [] rule = "table"   -> MatchTableRule(text, i)
      [] rule = "pipe"    -> MatchPipe(text, i)
      [] rule = "blank"   -> MatchBlankLines(text, i)
      [] rule = "spaces"  -> MatchSpaces(text, i)

\* What the match text[i..e-1] of a rule is replaced by.
Replacement(rule, text, i, e) ==
    CASE rule = "crlf"    -> <<"\n">>
      [] rule = "image"   -> <<" ">>
      [] rule = "code"    -> SubSeq(text, i + 1, e - 2)
      [] rule = "bold"    -> SubSeq(text, i + 2, e - 3)
      [] rule = "bold_"   -> SubSeq(text, i + 2, e - 3)
      [] rule = "link"    -> SubSeq(text, i + 1, IndexFrom(text, i + 1, "]") - 1)
      [] rule = "pipe"    -> <<" ">>
      [] rule = "blank"   -> <<"\n", "\n">>
      [] rule = "spaces"  -> <<" ">>
      [] OTHER            -> <<>>

\* re.sub and str.replace: from[i] is the rewriting of the text from position
\* i on: up to the leftmost match, its replacement, and on from the end of
\* the match.  Matches do not overlap and the pattern is matched against the
\* original text.
ReSub(rule, text) ==
    LET from[i \in 1..(Len(text) + 1)] ==
            LET Starts == {p \in i..Len(text) : MatchEnd(rule, text, p) # 0}
            IN  IF Starts = {} THEN SubSeq(text, i, Len(text))
                ELSE LET p == FirstIn(Starts, i, Len(text))
                         e == MatchEnd(rule, text, p)
                     IN  SubSeq(text, i, p - 1) \o Replacement(rule, text, p, e)
                             \o from[e]
    IN  from[1]

\* str.strip()
Strip(text) ==
    LET S == {j \in 1..Len(text) : text[j] \notin Whitespace}
    IN  IF S = {} THEN <<>>
        ELSE SubSeq(text, FirstIn(S, 1, Len(text)), LastIn(S, 1, Len(text)))

\* The rewrites in the order the function applies them.
NormalizeRules ==
    <<"crlf", "image", "heading", "bullet", "quote", "code", "bold", "bold_",
      "link", "table", "pipe", "blank", "spaces">>

normalize_extracted_text(value) ==
    LET after[k \in 0..Len(NormalizeRules)] ==
            IF k = 0 THEN OrEmpty(value) ELSE ReSub(NormalizeRules[k], after[k - 1])
    IN  Strip(after[Len(NormalizeRules)])

(***************************************************************************)
(* detect_file_kind                                                        *)
(***************************************************************************)
PDF_MIME ==
    <<"a", "p", "p", "l", "i", "c", "a", "t", "i", "o", "n", "/", "p", "d",
      "f">>

DOCX_MIME ==
    <<"a", "p", "p", "l", "i", "c", "a", "t", "i", "o", "n", "/", "v", "n",
      "d", ".", "o", "p", "e", "n", "x", "m", "l", "f", "o", "r", "m", "a",
      "t", "s", "-", "o", "f", "f", "i", "c", "e", "d", "o", "c", "u", "m",
      "e", "n", "t", ".", "w", "o", "r", "d", "p", "r", "o", "c", "e", "s",
      "s", "i", "n", "g", "m", "l", ".", "d", "o", "c", "u", "m", "e", "n",
      "t">>

UpperCase == <<"A","B","C","D","E","F","G","H","I","J","K","L","M","N","O","P","Q","R","S","T","U","V","W","X","Y","Z">>

LowerCase == <<"a","b","c","d","e","f","g","h","i","j","k","l","m","n","o","p","q","r","s","t","u","v","w","x","y","z">>

\* str.lower(), one character
LowerChar(c) ==
    IF \E k \in 1..Len(UpperCase) : UpperCase[k] = c
    THEN LowerCase[CHOOSE k \in 1..Len(UpperCase) : UpperCase[k] = c]
    ELSE c

\* str.lower()
Lower(text) == [k \in 1..Len(text) |-> LowerChar(text[k])]

\* str.split(sep)[0]: the text before the first sep, the whole text when there is none
SplitFirst(text, sep) ==
    LET j == IndexFrom(text, 1, sep)
    IN  IF j = 0 THEN text ELSE SubSeq(text, 1, j - 1)

\* str.startswith(prefix)
StartsWith(text, prefix) ==
    Len(text) >= Len(prefix) /\ SubSeq(text, 1, Len(prefix)) = prefix

\* PurePath.name: the last component of the path; empty components and "."
\* components are dropped when the path is parsed.
PathName(path) ==
    LET n == Len(path)
        IsStart(a) == a = 1 \/ path[a - 1] = "/"
        IsEnd(b) == b = n \/ path[b + 1] = "/"
        Parts == {ab \in (1..n) \X (1..n) :
                    /\ ab[1] <= ab[2]
                    /\ IsStart(ab[1]) /\ IsEnd(ab[2])
                    /\ \A k \in ab[1]..ab[2] : path[k] # "/"
                    /\ SubSeq(path, ab[1], ab[2]) # <<".">>}
    IN  IF Parts = {} THEN <<>>
        ELSE LET last == CHOOSE ab \in Parts : \A cd \in Parts : cd[1] <= ab[1]
             IN  SubSeq(path, last[1], last[2])

\* PurePath.suffix: the name from its last dot, when that dot is neither the
\* first nor the last character of the name.
Suffix(path) ==
    LET name == PathName(path)
        Dots == {k \in 1..Len(name) : name[k] = "."}
    IN  IF Dots = {} THEN <<>>
        ELSE LET d == Max(Dots)
             IN  IF 1 < d /\ d < Len(name) THEN SubSeq(name, d, Len(name)) ELSE <<>>

\* The ValueError the classifier raises for an unsupported file type.
Unsupported == "ValueError"

\* The classifier with the extension tested before the image hint.
detect_file_kind_extension_first(file_name, content_type) ==
    LET normalized_content_type == Lower(Strip(SplitFirst(OrEmpty(content_type), ";")))
        suffix == Lower(Suffix(OrEmpty(file_name)))
    IN  IF normalized_content_type = PDF_MIME \/ suffix = <<".", "p", "d", "f">>
        THEN "pdf"
        ELSE IF normalized_content_type = DOCX_MIME \/ suffix = <<".", "d", "o", "c", "x">>
        THEN "docx"
        ELSE IF StartsWith(normalized_content_type, <<"i", "m", "a", "g", "e", "/">>)
        THEN "image"
        ELSE Unsupported

detect_file_kind(file_name, content_type) ==
    LET normalized_content_type == Lower(Strip(SplitFirst(OrEmpty(content_type), ";")))
        suffix == Lower(Suffix(OrEmpty(file_name)))
    IN  IF StartsWith(normalized_content_type, <<"i", "m", "a", "g", "e", "/">>)
        THEN "image"
        ELSE IF normalized_content_type = PDF_MIME \/ suffix = <<".", "p", "d", "f">>
        THEN "pdf"
        ELSE IF normalized_content_type = DOCX_MIME \/ suffix = <<".", "d", "o", "c", "x">>
        THEN "docx"
        ELSE Unsupported

(***************************************************************************)
(* Bounded inputs of the normalizer.                                       *)
(***************************************************************************)
MaxLen == 3

NormAlphabet == {"a", " ", "\n", "#", "-", "*", ">", "|", Backtick, "_", "[", "]", "(", ")", "!"}

TextsUpTo(n, Alphabet) == UNION {[1..m -> Alphabet] : m \in 0..n}

(***************************************************************************)
(* Bounded inputs of the classifier: file names, and content-type hints    *)
(* made of a media type, padded with blanks and followed by a parameter.   *)
(***************************************************************************)
MaxPad == 1

DetectNames ==
    {None,
     <<"l", "e", "c", "t", "u", "r", "e", ".", "p", "d", "f">>,
     <<"N", "O", "T", "E", "S", ".", "P", "D", "F">>,
     <<"w", "o", "r", "k", "s", "h", "e", "e", "t", ".", "d", "o", "c", "x">>,
     <<"w", ".", "D", "o", "c", "X">>,
     <<"p", "h", "o", "t", "o", ".", "j", "p", "g">>,
     <<"a", "r", "c", "h", "i", "v", "e">>,
     <<".", "p", "d", "f">>,
     <<"a", ".", "p", "d", "f", ".", "t", "x", "t">>,
     <<"a", ".", "d", "o", "c", "x", ".", "p", "d", "f">>,
     <<>>,
     <<"d", ".", "p", "d", "f", "/", "n">>,
     <<"x", ".", "d", "o", "c", "x", "/">>,
     <<"a", ".">>,
     <<"p", "d", "f">>}

MediaTypes ==
    {PDF_MIME, DOCX_MIME,
     <<>>,
     <<"i", "m", "a", "g", "e", "/", "p", "n", "g">>,
     <<"I", "M", "A", "G", "E", "/", "X">>,
     <<"i", "m", "a", "g", "e">>,
     <<"A", "p", "p", "l", "i", "c", "a", "t", "i", "o", "n", "/", "P", "D", "F">>,
     <<"a", "p", "p", "l", "i", "c", "a", "t", "i", "o", "n", "/", "p", "d", "f", "x">>,
     <<"t", "e", "x", "t", "/", "p", "l", "a", "i", "n">>}

Pad(n) == [k \in 1..n |-> " "]

HintTails == {<<>>, <<";", "q">>, <<" ", ";", "i", "m", "a", "g", "e", "/">>, <<"\n">>}

DetectHints ==
    {None} \cup {Pad(n) \o m \o t : n \in 0..MaxPad, m \in MediaTypes, t \in HintTails}
                \cup {<<";">> \o m : m \in MediaTypes}

(***************************************************************************)
(* The extraction pipeline: what the collaborators may hand back.          *)
(***************************************************************************)
PDF_MIN_CHARS == 250

DOCX_MIN_CHARS == 120

MAX_FILE_SIZE_BYTES == 50 * 1024 * 1024

Fill(c, n) == [k \in 1..n |-> c]

\* Text layers read_pdf_text_direct may return: blank pages, a heading of
\* one character less than the threshold, a text of exactly the threshold.
PdfDirectRaw ==
    {<<"\n", "\n">>,
     <<"#", " ">> \o Fill("d", PDF_MIN_CHARS - 1),
     Fill("d", PDF_MIN_CHARS)}

\* Texts ocr_pdf_with_doctra may return.
PdfOcrRaw ==
    {<<" ">>,
     <<"*", "*">> \o Fill("o", PDF_MIN_CHARS - 1) \o <<"*", "*">>,
     Fill("o", PDF_MIN_CHARS)}

\* Texts read_docx_text_direct may return.
DocxDirectRaw ==
    {<<>>,
     <<"-", " ">> \o Fill("w", DOCX_MIN_CHARS - 1),
     Fill("w", DOCX_MIN_CHARS)}

\* Texts ocr_image may return for an image.
ImageRaw == {<<" ", "\n">>, <<"s", "c", "a", "n">>}

MdTitle == <<"#", " ", "T", "i", "t", "l", "e", "\n">>

MdRule == <<"|", "-", "-", "-", "|", "-", "-", "-", "|", "\n">>

MdBlank == <<" ", "\n">>

MdBody == <<"c", "e", "l", "l", " ", "|", " ", "x">>

\* The markdown files of a work area, in the order sorted() gives their paths.
MdOrder == <<"a.md", "document.md", "notes.md">>

\* File trees StructuredDOCXParser.parse may leave in the work area: each
\* maps the markdown files it holds to their contents.
ParserTrees ==
    {[n \in {"document.md"} |-> MdTitle],
     [n \in {"document.md"} |-> MdRule],
     [n \in {"a.md", "notes.md"} |-> IF n = "a.md" THEN MdBlank ELSE MdBody],
     [n \in {} |-> <<>>]}

\* Exception types a collaborator may raise.
RaisedTypes == {"ValueError", "RuntimeError"}

ReaderTexts ==
    PdfDirectRaw \cup PdfOcrRaw \cup DocxDirectRaw \cup ImageRaw
        \cup {MdTitle, MdRule, MdBlank, MdBody}

\* normalize_extracted_text on the collaborators' texts, computed once: the
\* pairs <<text, normalized text>>.
NormalizedPairs == {<<t, normalize_extracted_text(t)>> : t \in ReaderTexts}

Normalized(t) == (CHOOSE p \in NormalizedPairs : p[1] = t)[2]

\* Uploads: the file name, the part's content type and the contentType field.
Uploads ==
    {[filename |-> <<"l", "e", "c", "t", "u", "r", "e", ".", "p", "d", "f">>, part_type |-> PDF_MIME, contentType |-> None],
     [filename |-> <<"n", "o", "t", "e", "s", ".", "d", "o", "c", "x">>, part_type |-> <<>>, contentType |-> None],
     [filename |-> <<"p", "h", "o", "t", "o", ".", "p", "d", "f">>, part_type |-> PDF_MIME,
      contentType |-> <<"i", "m", "a", "g", "e", "/", "j", "p", "e", "g">>],
     [filename |-> <<"d", "a", "t", "a", ".", "c", "s", "v">>, part_type |-> <<"t", "e", "x", "t", "/", "c", "s", "v">>, contentType |-> None],
     [filename |-> <<>>, part_type |-> PDF_MIME, contentType |-> None]}

PayloadSizes == {0, 1, MAX_FILE_SIZE_BYTES + 1}

\* The requests, numbered in the order they arrive.
Requests == {1, 2}

\* The values uuid4().hex may take.
UuidHex == {"0a", "0b"}

\* No directory at a path.
NoDir == [writer |-> 0, exists |-> FALSE, files |-> [n \in {} |-> <<>>]]

Dir(c, tree) == [writer |-> c, exists |-> TRUE, files |-> tree]

\* A file tree with some of its files removed.
SubTrees(tree) == {[n \in D |-> tree[n]] : D \in SUBSET DOMAIN tree}

\* The work areas outputs/<stem> there may be, named by stem.
WorkAreas == {<<u>> : u \in UuidHex}

VARIABLES call, fs, tmp_files, issued

pvars == <<call, fs, tmp_files, issued>>

\* A request that has not arrived.
NoCall ==
    [pc |-> "idle", filename |-> None, content_type |-> None, tmp_name |-> None,
     kind |-> "unset", direct_text |-> None, ocr_text |-> None, markdown_text |-> None,
     text |-> None, exc |-> "none", expected_exists |-> FALSE, root_exists |-> FALSE,
     rm_error |-> FALSE, cleanup_exc |-> "none", invoked |-> {},
     result |-> [tag |-> "pending"], response |-> [status_code |-> 0]]

PipelineIdle ==
    /\ call = [c \in Requests |-> NoCall]
    /\ fs = [st \in WorkAreas |-> NoDir]
    /\ tmp_files = {}
    /\ issued = {}

VARIABLES arg_file_name, arg_content_type, result_kind, dpc

dvars == <<arg_file_name, arg_content_type, result_kind, dpc>>

VARIABLES arg_value, cleaned, recleaned, npc

nvars == <<arg_value, cleaned, recleaned, npc>>

vars == <<dvars, nvars, pvars>>

(***************************************************************************)
(* The normalizer applied once and then again to its own output.           *)
(***************************************************************************)
DetectIdle ==
    /\ arg_file_name = None
    /\ arg_content_type = None
    /\ result_kind = "unset"
    /\ dpc = "off"

NormIdle ==
    /\ arg_value = <<>>
    /\ cleaned = <<>>
    /\ recleaned = <<>>
    /\ npc = "off"

NormInit ==
    /\ DetectIdle
    /\ PipelineIdle
    /\ arg_value \in TextsUpTo(MaxLen, NormAlphabet)
    /\ cleaned = <<>>
    /\ recleaned = <<>>
    /\ npc = "input"

NormalizeOnce ==
    /\ npc = "input"
    /\ cleaned' = normalize_extracted_text(arg_value)
    /\ npc' = "once"
    /\ UNCHANGED <<arg_value, recleaned, dvars, pvars>>

NormalizeTwice ==
    /\ npc = "once"
    /\ recleaned' = normalize_extracted_text(cleaned)
    /\ npc' = "twice"
    /\ UNCHANGED <<arg_value, cleaned, dvars, pvars>>

NormNext == NormalizeOnce \/ NormalizeTwice

SpecNorm == NormInit /\ [][NormNext]_vars

\* C6: normalize_extracted_text is idempotent: normalizing its output again
\* changes nothing.
C6_Idempotent == npc = "twice" => recleaned = cleaned

(***************************************************************************)
(* The classifier applied to one (file name, content type) pair.           *)
(***************************************************************************)
DetectInit ==
    /\ NormIdle
    /\ PipelineIdle
    /\ arg_file_name \in DetectNames
    /\ arg_content_type \in DetectHints
    /\ result_kind = "unset"
    /\ dpc = "input"

Classify ==
    /\ dpc = "input"
    /\ result_kind' = detect_file_kind(arg_file_name, arg_content_type)
    /\ dpc' = "done"
    /\ UNCHANGED <<arg_file_name, arg_content_type, nvars, pvars>>

DetectNext == Classify

SpecDetect == DetectInit /\ [][DetectNext]_vars

\* The claim's words, stated without the classifier's own steps.
\* The hint cut at the first ';': its longest prefix that holds no ';'.
HintCut(hint) ==
    LET raw == IF hint = None THEN <<>> ELSE hint
        m == CHOOSE m \in 0..Len(raw) :
                 /\ \A k \in 1..m : raw[k] # ";"
                 /\ m = Len(raw) \/ raw[m + 1] = ";"
    IN  [k \in 1..m |-> raw[k]]

\* Trimmed: without the blanks before its first and after its last non-blank.
Trimmed(text) ==
    IF \A k \in 1..Len(text) : text[k] \in Whitespace THEN <<>>
    ELSE LET a == CHOOSE a \in 1..Len(text) :
                      text[a] \notin Whitespace /\ \A k \in 1..(a - 1) : text[k] \in Whitespace
             b == CHOOSE b \in 1..Len(text) :
                      text[b] \notin Whitespace /\ \A k \in (b + 1)..Len(text) : text[k] \in Whitespace
         IN  [k \in 1..(b - a + 1) |-> text[a + k - 1]]

ClaimHint(hint) == Lower(Trimmed(HintCut(hint)))

\* The last component of a file name: what follows its last '/', trailing
\* '/' apart.
LastComponent(name) ==
    LET raw == IF name = None THEN <<>> ELSE name
        Ends == {k \in 1..Len(raw) : raw[k] # "/"}
    IN  IF Ends = {} THEN <<>>
        ELSE LET b == Max(Ends)
                 a == Min({k \in 1..b : \A j \in k..b : raw[j] # "/"})
             IN  SubSeq(raw, a, b)

\* The extension of the name is ext, whatever the case: the last component
\* is a non-empty stem followed by ext.
HasExtension(name, ext) ==
    LET comp == LastComponent(name)
    IN  /\ Len(comp) > Len(ext)
        /\ Lower(SubSeq(comp, Len(comp) - Len(ext) + 1, Len(comp))) = ext

HintIsImage == StartsWith(ClaimHint(arg_content_type), <<"i", "m", "a", "g", "e", "/">>)

IsPdf == ClaimHint(arg_content_type) = PDF_MIME \/ HasExtension(arg_file_name, <<".", "p", "d", "f">>)

IsDocx ==
    \/ ClaimHint(arg_content_type) = DOCX_MIME
    \/ HasExtension(arg_file_name, <<".", "d", "o", "c", "x">>)

\* C5: the classifier returns the result of the ordered first-match rule on
\* the hint cut at the first ';', trimmed and lowercased: image for an
\* 'image/' hint whatever the extension, else pdf for the PDF media type or
\* a .pdf extension, else docx for the DOCX media type or a .docx extension,
\* and it fails exactly when none of these match.
C5_FirstMatch ==
    dpc = "done" =>
        /\ HintIsImage => result_kind = "image"
        /\ ~HintIsImage /\ IsPdf => result_kind = "pdf"
        /\ ~HintIsImage /\ ~IsPdf /\ IsDocx => result_kind = "docx"
        /\ result_kind = Unsupported <=> ~HintIsImage /\ ~IsPdf /\ ~IsDocx

\* An image hint on a file named .pdf has been classified as an image.
C5_Witness ==
    /\ dpc = "done"
    /\ result_kind = "image"
    /\ HasExtension(arg_file_name, <<".", "p", "d", "f">>)
    /\ arg_content_type # None /\ arg_content_type[1] = " "

(***************************************************************************)
(* The /extract endpoint and extract_text, one step per collaborator call  *)
(* or file-system operation.  Requests run concurrently in the thread pool.*)
(***************************************************************************)
\* uuid4().hex: any value no earlier call was given.
uuid4_reused(given) == UuidHex

uuid4(given) == UuidHex \ given

\* PurePath.stem: the name without its suffix.
Stem(name) == SubSeq(name, 1, Len(name) - Len(Suffix(name)))

\* len(text) >= threshold
ReachesThreshold_strict(text, threshold) == Len(text) > threshold

ReachesThreshold(text, threshold) == Len(text) >= threshold

\* parse_pdf's choice between its two candidates.
ChoosePdfText_ties_to_ocr(direct_text, ocr_text) ==
    IF Len(ocr_text) >= Len(direct_text) THEN ocr_text ELSE direct_text

ChoosePdfText(direct_text, ocr_text) ==
    IF Len(ocr_text) > Len(direct_text) THEN ocr_text ELSE direct_text

\* read_first_markdown: the first markdown file, in sorted order, whose
\* cleaned text is not empty; the empty text when there is none.
RECURSIVE FirstCleaned(_, _)
FirstCleaned(files, k) ==
    IF k > Len(MdOrder) THEN <<>>
    ELSE IF MdOrder[k] \in DOMAIN files /\ Normalized(files[MdOrder[k]]) # <<>>
    THEN Normalized(files[MdOrder[k]])
    ELSE FirstCleaned(files, k + 1)

read_first_markdown(dir) == IF dir.exists THEN FirstCleaned(dir.files, 1) ELSE <<>>

\* Whether extract_text's cleanup runs once the try block has ended with exc.
CleanupRuns_on_success_only(exc) == exc = "none"

CleanupRuns(exc) == TRUE

\* What shutil.rmtree(ignore_errors=True) raises when the removal has failed.
rmtree_raises_on_failure(failed) == IF failed THEN "OSError" ELSE "none"

rmtree_raises(failed) == "none"

\* What extract_text hands to its caller: the cleanup's exception, else the
\* try block's exception, else (text, kind).
Outcome(r) ==
    IF r.cleanup_exc # "none" THEN [tag |-> "raise", exc |-> r.cleanup_exc]
    ELSE IF r.exc # "none" THEN [tag |-> "raise", exc |-> r.exc]
    ELSE [tag |-> "return", text |-> r.text, kind |-> r.kind]

\* The endpoint's response to an outcome, its except clauses in order.  The
\* body of a 200 response also carries the returned text, result.text.
EndpointResponse_without_reraise(result) ==
    IF result.tag = "return"
    THEN IF Strip(result.text) = <<>>
         THEN [status_code |-> 500, detail |-> "Extraction failed"]
         ELSE [status_code |-> 200, kind |-> result.kind,
               charCount |-> Len(result.text)]
    ELSE IF result.exc = "ValueError"
    THEN [status_code |-> 400, detail |-> result.exc]
    ELSE [status_code |-> 500, detail |-> "Extraction failed"]

EndpointResponse(result) ==
    IF result.tag = "return"
    THEN IF Strip(result.text) = <<>>
         THEN [status_code |-> 422, detail |-> "Could not extract readable text"]
         ELSE [status_code |-> 200, kind |-> result.kind,
               charCount |-> Len(result.text)]
    ELSE IF result.exc = "ValueError"
    THEN [status_code |-> 400, detail |-> result.exc]
    ELSE [status_code |-> 500, detail |-> "Extraction failed"]

WorkArea(c) == Stem(call[c].tmp_name)

Init ==
    /\ DetectIdle
    /\ NormIdle
    /\ PipelineIdle

\* extract_endpoint up to the hand-over to the thread pool.
Receive(c) ==
    /\ call[c].pc = "idle"
    /\ \A b \in Requests : b < c => call[b].pc # "idle"
    /\ \E up \in Uploads, size \in PayloadSizes :
        IF up.filename = <<>>
        THEN /\ call' = [call EXCEPT ![c].pc = "done",
                            ![c].response = [status_code |-> 400, detail |-> "Missing file name."]]
             /\ UNCHANGED <<fs, tmp_files, issued>>
        ELSE IF size = 0
        THEN /\ call' = [call EXCEPT ![c].pc = "done",
                            ![c].response = [status_code |-> 400, detail |-> "Uploaded file is empty."]]
             /\ UNCHANGED <<fs, tmp_files, issued>>
        ELSE IF size > MAX_FILE_SIZE_BYTES
        THEN /\ call' = [call EXCEPT ![c].pc = "done",
                            ![c].response = [status_code |-> 413, detail |-> "File exceeds 50MB limit."]]
             /\ UNCHANGED <<fs, tmp_files, issued>>
        ELSE \E hex \in uuid4(issued) :
             LET tmp_name == <<hex>> \o Suffix(up.filename)
             IN  /\ call' = [call EXCEPT ![c].pc = "detect",
                                ![c].filename = up.filename,
                                ![c].content_type =
                                    IF up.contentType \notin {None, <<>>}
                                    THEN up.contentType ELSE up.part_type,
                                ![c].tmp_name = tmp_name]
                 /\ tmp_files' = tmp_files \cup {tmp_name}
                 /\ issued' = issued \cup {hex}
                 /\ UNCHANGED fs
    /\ UNCHANGED <<dvars, nvars>>

\* extract_text, line 142: a classification failure leaves before the try.
Detect(c) ==
    /\ call[c].pc = "detect"
    /\ LET k == detect_file_kind(call[c].filename, call[c].content_type)
       IN  call' = IF k = Unsupported
                   THEN [call EXCEPT ![c].pc = "respond", ![c].exc = "ValueError"]
                   ELSE [call EXCEPT ![c].pc = k \o "_direct", ![c].kind = k]
    /\ UNCHANGED <<fs, tmp_files, issued, dvars, nvars>>

ReadPdfDirect(c) ==
    /\ call[c].pc = "pdf_direct"
    /\ \/ \E raw \in PdfDirectRaw :
            LET direct_text == Normalized(raw)
            IN  call' = IF ReachesThreshold(direct_text, PDF_MIN_CHARS)
                        THEN [call EXCEPT ![c].pc = "cleanup",
                                 ![c].invoked = @ \cup {"read_pdf_text_direct"},
                                 ![c].direct_text = direct_text,
                                 ![c].text = direct_text]
                        ELSE [call EXCEPT ![c].pc = "pdf_ocr",
                                 ![c].invoked = @ \cup {"read_pdf_text_direct"},
                                 ![c].direct_text = direct_text]
       \/ \E e \in RaisedTypes :
            call' = [call EXCEPT ![c].pc = "cleanup",
                        ![c].invoked = @ \cup {"read_pdf_text_direct"},
                        ![c].exc = e]
    /\ UNCHANGED <<fs, tmp_files, issued, dvars, nvars>>

OcrPdf(c) ==
    /\ call[c].pc = "pdf_ocr"
    /\ \/ \E raw \in PdfOcrRaw :
            LET ocr_text == Normalized(raw)
            IN  call' = [call EXCEPT ![c].pc = "cleanup",
                            ![c].invoked = @ \cup {"ocr_pdf_with_doctra"},
                            ![c].ocr_text = ocr_text,
                            ![c].text = ChoosePdfText(call[c].direct_text, ocr_text)]
       \/ \E e \in RaisedTypes :
            call' = [call EXCEPT ![c].pc = "cleanup",
                        ![c].invoked = @ \cup {"ocr_pdf_with_doctra"},
                        ![c].exc = e]
    /\ UNCHANGED <<fs, tmp_files, issued, dvars, nvars>>

ReadDocxDirect(c) ==
    /\ call[c].pc = "docx_direct"
    /\ \/ \E raw \in DocxDirectRaw :
            LET direct_text == Normalized(raw)
            IN  call' = IF ReachesThreshold(direct_text, DOCX_MIN_CHARS)
                        THEN [call EXCEPT ![c].pc = "cleanup",
                                 ![c].invoked = @ \cup {"read_docx_text_direct"},
                                 ![c].direct_text = direct_text,
                                 ![c].text = direct_text]
                        ELSE [call EXCEPT ![c].pc = "docx_parse",
                                 ![c].invoked = @ \cup {"read_docx_text_direct"},
                                 ![c].direct_text = direct_text]
       \/ \E e \in RaisedTypes :
            call' = [call EXCEPT ![c].pc = "cleanup",
                        ![c].invoked = @ \cup {"read_docx_text_direct"},
                        ![c].exc = e]
    /\ UNCHANGED <<fs, tmp_files, issued, dvars, nvars>>

\* StructuredDOCXParser.parse: it writes its tree under outputs/<stem>, or
\* raises, having created the directory or not.
ParserParse(c) ==
    /\ call[c].pc = "docx_parse"
    /\ \/ \E tree \in ParserTrees :
            /\ fs' = [fs EXCEPT ![WorkArea(c)] = Dir(c, tree)]
            /\ call' = [call EXCEPT ![c].pc = "docx_exists",
                           ![c].invoked = @ \cup {"StructuredDOCXParser.parse"}]
       \/ \E e \in RaisedTypes, created \in BOOLEAN :
            /\ fs' = IF created
                     THEN [fs EXCEPT ![WorkArea(c)] = Dir(c, [n \in {} |-> <<>>])]
                     ELSE fs
            /\ call' = [call EXCEPT ![c].pc = "cleanup",
                           ![c].invoked = @ \cup {"StructuredDOCXParser.parse"},
                           ![c].exc = e]
    /\ UNCHANGED <<tmp_files, issued, dvars, nvars>>

\* expected.exists()
CheckExpected(c) ==
    /\ call[c].pc = "docx_exists"
    /\ LET found == fs[WorkArea(c)].exists /\ "document.md" \in DOMAIN fs[WorkArea(c)].files
       IN  call' = [call EXCEPT ![c].expected_exists = found,
                       ![c].pc = IF found THEN "docx_read_expected" ELSE "docx_read_first"]
    /\ UNCHANGED <<fs, tmp_files, issued, dvars, nvars>>

\* expected.read_text(), which raises when the file is there no more
ReadExpected(c) ==
    /\ call[c].pc = "docx_read_expected"
    /\ LET dir == fs[WorkArea(c)]
       IN  call' = IF dir.exists /\ "document.md" \in DOMAIN dir.files
                   THEN [call EXCEPT ![c].pc = "cleanup",
                            ![c].markdown_text = Normalized(dir.files["document.md"]),
                            ![c].text = Normalized(dir.files["document.md"])]
                   ELSE [call EXCEPT ![c].pc = "cleanup", ![c].exc = "FileNotFoundError"]
    /\ UNCHANGED <<fs, tmp_files, issued, dvars, nvars>>

ReadFirstMarkdown(c) ==
    /\ call[c].pc = "docx_read_first"
    /\ call' = [call EXCEPT ![c].pc = "cleanup",
                   ![c].markdown_text = read_first_markdown(fs[WorkArea(c)]),
                   ![c].text = read_first_markdown(fs[WorkArea(c)])]
    /\ UNCHANGED <<fs, tmp_files, issued, dvars, nvars>>

ParseImage(c) ==
    /\ call[c].pc = "image_direct"
    /\ \/ \E raw \in ImageRaw :
            call' = [call EXCEPT ![c].pc = "cleanup",
                        ![c].invoked = @ \cup {"ocr_image"},
                        ![c].text = Normalized(raw)]
       \/ \E e \in RaisedTypes :
            call' = [call EXCEPT ![c].pc = "cleanup",
                        ![c].invoked = @ \cup {"ocr_image"},
                        ![c].exc = e]
    /\ UNCHANGED <<fs, tmp_files, issued, dvars, nvars>>

\* finally: output_root.exists()
CleanupCheck(c) ==
    /\ call[c].pc = "cleanup"
    /\ call' = IF CleanupRuns(call[c].exc)
               THEN [call EXCEPT ![c].root_exists = fs[WorkArea(c)].exists,
                        ![c].pc = IF fs[WorkArea(c)].exists THEN "rmtree" ELSE "respond"]
               ELSE [call EXCEPT ![c].pc = "respond"]
    /\ UNCHANGED <<fs, tmp_files, issued, dvars, nvars>>

\* shutil.rmtree(output_root, ignore_errors=True): the tree goes, or the
\* removal fails and leaves the directory with some of its files.
Rmtree(c) ==
    /\ call[c].pc = "rmtree"
    /\ \/ /\ fs' = [fs EXCEPT ![WorkArea(c)] = NoDir]
          /\ call' = [call EXCEPT ![c].pc = "respond",
                         ![c].cleanup_exc = rmtree_raises(FALSE)]
       \/ /\ fs[WorkArea(c)].exists
          /\ \E left \in SubTrees(fs[WorkArea(c)].files) :
                fs' = [fs EXCEPT ![WorkArea(c)].files = left]
          /\ call' = [call EXCEPT ![c].pc = "respond",
                         ![c].rm_error = TRUE,
                         ![c].cleanup_exc = rmtree_raises(TRUE)]
    /\ UNCHANGED <<tmp_files, issued, dvars, nvars>>

\* extract_text returns or raises; the endpoint answers and unlinks the
\* temporary file.
Respond(c) ==
    /\ call[c].pc = "respond"
    /\ call' = [call EXCEPT ![c].pc = "done",
                   ![c].result = Outcome(call[c]),
                   ![c].response = EndpointResponse(Outcome(call[c]))]
    /\ tmp_files' = tmp_files \ {call[c].tmp_name}
    /\ UNCHANGED <<fs, issued, dvars, nvars>>

Next ==
    \E c \in Requests :
        \/ Receive(c)
        \/ Detect(c)
        \/ ReadPdfDirect(c)
        \/ OcrPdf(c)
        \/ ReadDocxDirect(c)
        \/ ParserParse(c)
        \/ CheckExpected(c)
        \/ ReadExpected(c)
        \/ ReadFirstMarkdown(c)
        \/ ParseImage(c)
        \/ CleanupCheck(c)
        \/ Rmtree(c)
        \/ Respond(c)

Spec == Init /\ [][Next]_vars

(***************************************************************************)
(* The properties of the pipeline.                                         *)
(***************************************************************************)
\* extract_text has been entered for request c and has returned or raised
\* from inside its try statement.
ExtractEnded(c) == call[c].pc \in {"respond", "done"} /\ call[c].kind # "unset"

\* What the try block of extract_text alone would hand to the caller.
PrimaryOutcome(c) ==
    IF call[c].exc # "none" THEN [tag |-> "raise", exc |-> call[c].exc]
    ELSE [tag |-> "return", text |-> call[c].text, kind |-> call[c].kind]

\* The threshold of a kind and the collaborator its fallback step calls.
MinChars(k) == IF k = "pdf" THEN PDF_MIN_CHARS ELSE DOCX_MIN_CHARS

Fallback(k) == IF k = "pdf" THEN "ocr_pdf_with_doctra" ELSE "StructuredDOCXParser.parse"

\* The candidates request c has computed.
Candidates(c) ==
    {call[c].direct_text, call[c].ocr_text, call[c].markdown_text} \ {None}

\* C1, as stated: once extract_text has returned or raised from an
\* extraction step, the work-area directory outputs/<stem> does not exist.
C1_AlwaysRemoved ==
    \A c \in Requests : ExtractEnded(c) => ~fs[WorkArea(c)].exists

\* C1, amended: once extract_text has returned or raised from an extraction
\* step, the work-area directory does not exist unless its removal was
\* attempted and failed.
C1_RemovedUnlessRemovalFailed ==
    \A c \in Requests :
        ExtractEnded(c) /\ ~call[c].rm_error => ~fs[WorkArea(c)].exists

\* The structural parser created the work area and raised; the cleanup found
\* the directory and removed it before the exception reached the caller.
C1_Witness ==
    \E c \in Requests :
        /\ call[c].pc = "done"
        /\ call[c].kind = "docx"
        /\ call[c].exc = "RuntimeError"
        /\ call[c].root_exists
        /\ ~call[c].rm_error
        /\ ~fs[WorkArea(c)].exists

\* C2: when the direct candidate's normalized length reaches the kind's
\* threshold (250 for PDF, 120 for DOCX), the fallback step is never invoked
\* in that call and the direct normalized text is what is returned.
C2_DirectAccepted ==
    \A c \in Requests :
        /\ call[c].kind \in {"pdf", "docx"}
        /\ call[c].direct_text # None
        /\ Len(call[c].direct_text) >= MinChars(call[c].kind)
        => /\ Fallback(call[c].kind) \notin call[c].invoked
           /\ call[c].pc = "done" =>
                call[c].result = [tag |-> "return", text |-> call[c].direct_text,
                                  kind |-> call[c].kind]

\* A DOCX whose direct text has exactly 120 characters was answered with
\* that text, the direct reader being the only collaborator called.
C2_Witness ==
    \E c \in Requests :
        /\ call[c].pc = "done"
        /\ call[c].kind = "docx"
        /\ call[c].direct_text # None
        /\ Len(call[c].direct_text) = DOCX_MIN_CHARS
        /\ call[c].invoked = {"read_docx_text_direct"}
        /\ call[c].result.tag = "return"
        /\ call[c].result.text = call[c].direct_text
        /\ call[c].response.status_code = 200

\* C3: for a PDF whose direct normalized text is shorter than 250
\* characters, parse_pdf returns the OCR normalized text when it is strictly
\* longer than the direct one, and the direct one otherwise, ties included.
C3_LongerOrDirect ==
    \A c \in Requests :
        /\ call[c].kind = "pdf"
        /\ call[c].direct_text # None
        /\ Len(call[c].direct_text) < PDF_MIN_CHARS
        /\ call[c].ocr_text # None
        => LET chosen == IF Len(call[c].ocr_text) > Len(call[c].direct_text)
                         THEN call[c].ocr_text ELSE call[c].direct_text
           IN  /\ call[c].text = chosen
               /\ call[c].pc = "done" =>
                    call[c].result = [tag |-> "return", text |-> chosen, kind |-> "pdf"]

\* The two candidates differ and have the same length, below the threshold,
\* and the direct one was returned.
C3_Witness ==
    \E c \in Requests :
        /\ call[c].pc = "done"
        /\ call[c].kind = "pdf"
        /\ call[c].direct_text # None
        /\ call[c].ocr_text # None
        /\ Len(call[c].ocr_text) = Len(call[c].direct_text)
        /\ Len(call[c].direct_text) = PDF_MIN_CHARS - 1
        /\ call[c].ocr_text # call[c].direct_text
        /\ call[c].result.tag = "return"
        /\ call[c].result.text = call[c].direct_text

\* C4: the work areas of two concurrent calls on distinct input files do not
\* collide: after its structural parser has written, a call finds and reads
\* back its own tree, and the directory a call's cleanup checks and removes
\* is never one the other call's parser wrote, under every interleaving.
C4_NoCollision ==
    \A c \in Requests :
        /\ call[c].pc \in {"docx_exists", "docx_read_expected", "docx_read_first"}
            => fs[WorkArea(c)].exists /\ fs[WorkArea(c)].writer = c
        /\ call[c].pc = "docx_read_expected"
            => "document.md" \in DOMAIN fs[WorkArea(c)].files
        /\ call[c].pc \in {"cleanup", "rmtree"}
            => fs[WorkArea(c)].writer \in {0, c}
        /\ \A d \in Requests \ {c} :
                call[c].tmp_name # None /\ call[d].tmp_name # None
                    => call[c].tmp_name # call[d].tmp_name

\* Both calls are in the DOCX fallback at once: one is about to read its
\* document.md back while the other is about to remove its work area.
C4_Witness ==
    \E c \in Requests : \E d \in Requests \ {c} :
        /\ call[c].pc = "docx_read_expected"
        /\ call[d].pc = "rmtree"
        /\ fs[WorkArea(c)].exists
        /\ fs[WorkArea(d)].exists

\* C7: whenever a reader, renderer, OCR or parser step raises during
\* extraction, whatever the type of the exception, the endpoint answers
\* HTTP 500, never 400 and never 422; only a classification failure is
\* answered as a client-input error.
C7_StepFailureIs500 ==
    \A c \in Requests :
        call[c].pc = "done" /\ call[c].kind # "unset" /\ call[c].exc # "none"
            => call[c].response.status_code = 500

\* C8: when no extraction step raises and the returned text is empty or
\* whitespace-only, the endpoint answers HTTP 422, not 500 and not a success.
C8_BlankIs422 ==
    \A c \in Requests :
        /\ call[c].pc = "done"
        /\ call[c].result.tag = "return"
        /\ Strip(call[c].result.text) = <<>>
        => call[c].response.status_code = 422

\* An image whose OCR text normalizes to nothing was answered with 422.
C8_Witness ==
    \E c \in Requests :
        /\ call[c].pc = "done"
        /\ call[c].kind = "image"
        /\ call[c].exc = "none"
        /\ call[c].text = <<>>
        /\ call[c].response.status_code = 422

\* C9: a failure while removing the work area never changes the outcome of
\* extract_text: it returns the text and kind the extraction step produced,
\* or raises the exception the extraction step raised.
C9_CleanupFailureSwallowed ==
    \A c \in Requests :
        call[c].pc = "done" /\ call[c].rm_error
            => call[c].result = PrimaryOutcome(c)

\* The removal failed after the structural parser had produced a readable
\* document: the directory is still there and the text was returned.
C9_Witness ==
    \E c \in Requests :
        /\ call[c].pc = "done"
        /\ call[c].rm_error
        /\ fs[WorkArea(c)].exists
        /\ call[c].exc = "none"
        /\ call[c].result.tag = "return"
        /\ call[c].result.text # <<>>
        /\ call[c].response.status_code = 200

\* C10: the text extract_text returns is never shorter than any candidate
\* the call computed.
C10_BestCandidate ==
    \A c \in Requests :
        call[c].pc = "done" /\ call[c].result.tag = "return"
            => \A cand \in Candidates(c) : Len(call[c].result.text) >= Len(cand)

====
